---- MODULE Spec2Model ----
(***************************************************************************)
(* A model of src/elgamal.js: the numeric engine of the ElGamal signature  *)
(* demo.  The pure helpers (fastModularExponentiation, negativeModulo,     *)
(* inverseModulo, gcd, verify, calculateK) are operators computed the way  *)
(* the JavaScript computes them; discreteLogarithm is a step machine whose *)
(* two loops (table build, baby-step scan) are actions.  A caller invokes  *)
(* one function on inputs drawn from bounded sets.                         *)
(***************************************************************************)
EXTENDS Integers, Sequences, FiniteSets, TLC

VARIABLES pc, fn, args, ret, n, i, value

vars == <<pc, fn, args, ret, n, i, value>>

(* ------------------------------ bounds --------------------------------- *)

\* Largest modulus handed to discreteLogarithm.
MaxPrimeDL == 23
\* Largest modulus handed to calculateK.
MaxPrimeK == 7
\* Largest operand handed to the arithmetic helpers.
MaxVal == 12
\* Largest modulus handed to the arithmetic helpers.
MaxMod == 8
\* Largest exponent handed to fastModularExponentiation.
MaxExp == 6
\* Largest argument (and modulus) handed to verify.
MaxVerify == 4

(* --------------------------- JavaScript values -------------------------- *)

\* The outcome of a call that returns v.
Returned(v) == [returns |-> TRUE, value |-> v]

\* The outcome of a call that never returns (a loop whose state repeats), and
\* the result slot before a call returns.
NoValue == [returns |-> FALSE, value |-> 0]

\* JavaScript's % on integers: the result has the sign of the dividend.
JsMod(a, m) == IF a >= 0 THEN a % m ELSE 0 - ((0 - a) % m)

\* Math.floor(Math.sqrt(m)) for a non-negative integer m.
FloorSqrt(m) == CHOOSE k \in 0..m : k * k <= m /\ (k + 1) * (k + 1) > m

(* ----------------------- fastModularExponentiation ---------------------- *)

RECURSIVE fmeLoop(_, _, _, _)
\* The while loop of fastModularExponentiation over (result, x, exponent).
fmeLoop(result, x, exponent, modulo) ==
    IF exponent > 0
    THEN LET leastSignificantBit == exponent % 2
             result2 == IF leastSignificantBit = 1
                        THEN JsMod(result * x, modulo)
                        ELSE result
         IN  fmeLoop(result2, JsMod(x * x, modulo), exponent \div 2, modulo)
    ELSE result

fastModularExponentiation(base, exponent, modulo) ==
    fmeLoop(1, JsMod(base, modulo), exponent, modulo)

(* ------------------------------- verify --------------------------------- *)

\* verify with the product of the two powers compared unreduced.
verifyUnreduced(alpha, beta, modulo, m, signature1, signature2) ==
    LET v1 == fastModularExponentiation(alpha, m, modulo)
        v2 == fastModularExponentiation(beta, signature1, modulo)
                  * fastModularExponentiation(signature1, signature2, modulo)
    IN  v1 = v2

verify(alpha, beta, modulo, m, signature1, signature2) ==
    LET v1 == fastModularExponentiation(alpha, m, modulo)
        v2 == fastModularExponentiation(
                  fastModularExponentiation(beta, signature1, modulo)
                      * fastModularExponentiation(signature1, signature2, modulo),
                  1, modulo)
    IN  v1 = v2

(* ---------------------------- negativeModulo ---------------------------- *)

RECURSIVE negativeModuloScan(_, _, _)
\* The for loop of negativeModulo: the first i = -1, -2, ... with
\* modulo * i < negativeNumber (the loop condition i < modulo stays true).
negativeModuloScan(k, negativeNumber, modulo) ==
    IF modulo * k < negativeNumber
    THEN k
    ELSE negativeModuloScan(k - 1, negativeNumber, modulo)

negativeModulo(negativeNumber, modulo) ==
    LET k == negativeModuloScan(0 - 1, negativeNumber, modulo)
    IN  (0 - 1) * (modulo * k) + negativeNumber

(* ----------------------------- inverseModulo ---------------------------- *)

inverseModulo(a, modulo) ==
    LET a2 == JsMod(a, modulo)
        hits == {k \in 0..(modulo - 1) : JsMod(a2 * k, modulo) = 1}
    IN  IF hits # {}
        THEN CHOOSE k \in hits : \A h \in hits : k <= h
        ELSE 1

(* --------------------------------- gcd ---------------------------------- *)

RECURSIVE gcd(_, _)
\* The subtraction loop.  An iteration that leaves (number1, number2)
\* unchanged repeats forever: the call never returns.
gcd(number1, number2) ==
    IF number1 = number2
    THEN Returned(number1)
    ELSE LET next1 == IF number1 > number2 THEN number1 - number2 ELSE number1
             next2 == IF number1 > number2 THEN number2 ELSE number2 - number1
         IN  IF next1 = number1 /\ next2 = number2
             THEN NoValue
             ELSE gcd(next1, next2)

(* ------------------------------ calculateK ------------------------------ *)

RECURSIVE candidateScan(_, _, _, _, _, _, _)
\* The for loop of the c > 1 branch: the first k = kt + j * modulo2,
\* j = 1..c, with alpha^k mod modulo = signature1; the last k computed
\* (j = c) when no candidate passes.
candidateScan(j, c, kt, modulo2, alpha, modulo, signature1) ==
    LET k == kt + (j * modulo2)
    IN  IF fastModularExponentiation(alpha, k, modulo) = signature1 \/ j >= c
        THEN k
        ELSE candidateScan(j + 1, c, kt, modulo2, alpha, modulo, signature1)

calculateK(alpha, beta, modulo, m, signature1, signature2, secretKey) ==
    LET diff == m - secretKey * signature1
        aux == IF diff < 0
               THEN negativeModulo(diff, modulo - 1)
               ELSE fastModularExponentiation(diff, 1, modulo - 1)
        g == gcd(signature2, modulo - 1)
        c == g.value
    IN  IF ~g.returns
        THEN NoValue
        ELSE IF c = 1
        THEN LET res == inverseModulo(signature2, modulo - 1) * diff
             IN  Returned(fastModularExponentiation(res, 1, modulo - 1))
        ELSE LET modulo2 == (modulo - 1) \div c
                 signature2Inverse == inverseModulo(signature2 \div c, modulo2)
                 kt == fastModularExponentiation((aux \div c) * signature2Inverse,
                                                 1, modulo2)
             IN  Returned(candidateScan(1, c, kt, modulo2, alpha, modulo, signature1))

(* --------------------------- discreteLogarithm -------------------------- *)

\* Candidate with the baby step added instead of subtracted.
CandidatePlus(v, nn, k) == v * nn + k

\* The candidate exponent of a baby step k that hits the entry v.
Candidate(v, nn, k) == v * nn - k

\* The table slot a giant step k writes.
GiantKey(alpha, k, nn, modulo) == fastModularExponentiation(alpha, k * nn, modulo)

\* The value a baby step k looks up.
BabyKey(alpha, beta, k, modulo) ==
    JsMod(fastModularExponentiation(alpha, k, modulo) * beta, modulo)

(* ------------------------------- the caller ----------------------------- *)

\* The moduli the callers hand in are primes.
IsPrime(q) == q >= 2 /\ \A d \in 2..(q - 1) : q % d # 0

Primes(max) == {q \in 2..max : IsPrime(q)}

\* The inputs a caller may hand to each function.
Inputs(name) ==
    CASE name = "fastModularExponentiation" ->
            {<<base, exponent, modulo>> :
                base \in (0 - MaxVal)..MaxVal, exponent \in 0..MaxExp,
                modulo \in 1..MaxMod}
      [] name = "verify" ->
            {<<alpha, beta, modulo, m, signature1, signature2>> :
                alpha \in 0..MaxVerify, beta \in 0..MaxVerify,
                modulo \in 2..(MaxVerify + 1), m \in 0..MaxVerify,
                signature1 \in 0..MaxVerify, signature2 \in 0..MaxVerify}
      [] name = "negativeModulo" ->
            {<<negativeNumber, modulo>> :
                negativeNumber \in (0 - 2 * MaxVal)..(0 - 1), modulo \in 1..MaxMod}
      [] name = "inverseModulo" ->
            {<<a, modulo>> : a \in 0..MaxVal, modulo \in 1..MaxMod}
      [] name = "gcd" ->
            {<<number1, number2>> : number1 \in 0..MaxVal, number2 \in 0..MaxVal}
      [] name = "calculateK" ->
            \* beta is the public key of secretKey; calculateK never reads it.
            UNION {{<<alpha, fastModularExponentiation(alpha, secretKey, modulo),
                      modulo, m, signature1, signature2, secretKey>> :
                        alpha \in 2..(modulo - 1), m \in 0..(modulo - 1),
                        signature1 \in 0..(modulo - 1),
                        signature2 \in 0..(modulo - 1),
                        secretKey \in 0..(modulo - 1)} :
                   modulo \in Primes(MaxPrimeK)}
      [] name = "discreteLogarithm" ->
            UNION {{<<alpha, beta, modulo>> :
                        alpha \in 2..(modulo - 1), beta \in 0..(modulo - 1)} :
                   modulo \in Primes(MaxPrimeDL)}

Functions ==
    {"fastModularExponentiation", "verify", "negativeModulo", "inverseModulo",
     "gcd", "calculateK", "discreteLogarithm"}

\* A caller has invoked one function on its inputs; nothing has run yet.
Init ==
    /\ pc = "called"
    /\ fn \in Functions
    /\ args \in Inputs(fn)
    /\ ret = NoValue
    /\ n = 0
    /\ i = 0
    /\ value = <<>>

\* A function without observable intermediate state runs to its end: it
\* returns its value, or hangs in a loop.
Run(name, result) ==
    /\ pc = "called"
    /\ fn = name
    /\ pc' = IF result.returns THEN "done" ELSE "hung"
    /\ ret' = result
    /\ UNCHANGED <<fn, args, n, i, value>>

RunFastModularExponentiation ==
    Run("fastModularExponentiation",
        Returned(fastModularExponentiation(args[1], args[2], args[3])))

RunVerify ==
    Run("verify",
        Returned(verify(args[1], args[2], args[3], args[4], args[5], args[6])))

RunNegativeModulo ==
    Run("negativeModulo", Returned(negativeModulo(args[1], args[2])))

RunInverseModulo ==
    Run("inverseModulo", Returned(inverseModulo(args[1], args[2])))

RunGcd ==
    Run("gcd", gcd(args[1], args[2]))

RunCalculateK ==
    Run("calculateK",
        calculateK(args[1], args[2], args[3], args[4], args[5], args[6], args[7]))

\* discreteLogarithm, lines 57-58: n and the empty table; the build loop
\* starts at i = n.
DLStart ==
    /\ pc = "called"
    /\ fn = "discreteLogarithm"
    /\ pc' = "dl_build"
    /\ n' = FloorSqrt(args[3]) + 1
    /\ i' = FloorSqrt(args[3]) + 1
    /\ value' = <<>>
    /\ UNCHANGED <<fn, args, ret>>

\* DLBuild with the giant steps written in ascending order, 1 up to n.
DLBuildAscending ==
    /\ pc = "dl_build"
    /\ i >= 1
    /\ value' = (GiantKey(args[1], n + 1 - i, n, args[3]) :> (n + 1 - i)) @@ value
    /\ i' = i - 1
    /\ UNCHANGED <<pc, fn, args, ret, n>>

\* One iteration of the build loop, i = n down to 1: value[alpha^(i*n) mod p] = i.
DLBuild ==
    /\ pc = "dl_build"
    /\ i >= 1
    /\ value' = (GiantKey(args[1], i, n, args[3]) :> i) @@ value
    /\ i' = i - 1
    /\ UNCHANGED <<pc, fn, args, ret, n>>

\* The build loop ends; the scan loop starts at i = 0.
DLBuildDone ==
    /\ pc = "dl_build"
    /\ i < 1
    /\ pc' = "dl_scan"
    /\ i' = 0
    /\ UNCHANGED <<fn, args, ret, n, value>>

\* One iteration of the scan loop: return the candidate of a hit below modulo.
DLScan ==
    /\ pc = "dl_scan"
    /\ i < n
    /\ LET curr == BabyKey(args[1], args[2], i, args[3])
           hit == curr \in DOMAIN value /\ value[curr] > 0
                    /\ Candidate(value[curr], n, i) < args[3]
       IN  IF hit
           THEN /\ ret' = Returned(Candidate(value[curr], n, i))
                /\ pc' = "done"
                /\ UNCHANGED i
           ELSE /\ i' = i + 1
                /\ UNCHANGED <<pc, ret>>
    /\ UNCHANGED <<fn, args, n, value>>

\* The scan loop ends without a hit: return -1.
DLNotFound ==
    /\ pc = "dl_scan"
    /\ i >= n
    /\ ret' = Returned(0 - 1)
    /\ pc' = "done"
    /\ UNCHANGED <<fn, args, n, i, value>>

Next ==
    \/ RunFastModularExponentiation
    \/ RunVerify
    \/ RunNegativeModulo
    \/ RunInverseModulo
    \/ RunGcd
    \/ RunCalculateK
    \/ DLStart
    \/ DLBuild
    \/ DLBuildDone
    \/ DLScan
    \/ DLNotFound

Spec == Init /\ [][Next]_vars

(* --------------------- reference arithmetic (claims) -------------------- *)

RECURSIVE PowMod(_, _, _)
\* base^exponent mod modulo by repeated multiplication, as a residue in
\* [0, modulo).
PowMod(base, exponent, modulo) ==
    IF exponent = 0
    THEN 1 % modulo
    ELSE (PowMod(base, exponent - 1, modulo) * (base % modulo)) % modulo

Divides(d, a) == \E q \in 0..a : d * q = a

\* The greatest common divisor of non-negative a and b, from the definition.
MathGcd(a, b) ==
    IF a = 0 /\ b = 0
    THEN 0
    ELSE CHOOSE d \in 1..(a + b) :
            /\ Divides(d, a) /\ Divides(d, b)
            /\ \A e \in 1..(a + b) : Divides(e, a) /\ Divides(e, b) => e <= d

\* alpha generates the whole multiplicative group modulo the prime p.
IsGenerator(alpha, p) ==
    \A e \in 1..(p - 2) : PowMod(alpha, e, p) # 1

Called(name) == fn = name /\ pc \in {"done", "hung"}

(* ------------------------------- claims --------------------------------- *)

\* C8: fastModularExponentiation(base, exponent, modulo), for every exponent
\* >= 0 and modulo >= 1, returns base^exponent mod modulo as a value in
\* [0, modulo); in particular the result for exponent 0 is 1 mod modulo,
\* also for modulo = 1.
C8_ModPowContract ==
    Called("fastModularExponentiation") =>
        LET base == args[1]
            exponent == args[2]
            modulo == args[3]
        IN  /\ ret.value \in 0..(modulo - 1)
            /\ ret.value = PowMod(base, exponent, modulo)

\* C7: negativeModulo(value, modulo), for every negative value and every
\* modulo >= 1, returns r with 0 <= r < modulo and r congruent to value,
\* also when value is an exact negative multiple of modulo.
C7_NegativeModuloContract ==
    Called("negativeModulo") =>
        LET negativeNumber == args[1]
            modulo == args[2]
        IN  /\ ret.value \in 0..(modulo - 1)
            /\ (ret.value - negativeNumber) % modulo = 0

\* C6: gcd(a, b) terminates and returns the greatest common divisor for all
\* non-negative a, b (so gcd(a, b) = gcd(b, a), gcd(a, 0) = a, gcd(0, b) = b).
C6_GcdContract ==
    Called("gcd") =>
        /\ pc = "done"
        /\ ret = Returned(MathGcd(args[1], args[2]))

\* C5: inverseModulo(a, modulo), modulo >= 1, a >= 0: when gcd(a, modulo) = 1
\* it returns b in [0, modulo) with a * b congruent to 1 mod modulo; when
\* gcd(a, modulo) # 1 it fails and returns no integer as if it were an inverse.
C5_InverseModuloContract ==
    Called("inverseModulo") =>
        LET a == args[1]
            modulo == args[2]
        IN  IF MathGcd(a, modulo) = 1
            THEN /\ ret.returns
                 /\ ret.value \in 0..(modulo - 1)
                 /\ (a * ret.value) % modulo = 1 % modulo
            ELSE ~ret.returns

\* The signing relation of C2: the tuple in args was signed with nonce k.
SignedWith(k) ==
    LET alpha == args[1]
        beta == args[2]
        p == args[3]
        m == args[4]
        s1 == args[5]
        s2 == args[6]
        x == args[7]
    IN  /\ IsGenerator(alpha, p)
        /\ x \in 0..(p - 2)
        /\ m \in 0..(p - 2)
        /\ beta = PowMod(alpha, x, p)
        /\ k \in 1..(p - 2)
        /\ MathGcd(k, p - 1) = 1
        /\ s1 = PowMod(alpha, k, p)
        /\ (k * s2) % (p - 1) = (m - x * s1) % (p - 1)
        /\ s2 \in 0..(p - 2)

\* C2: nonce round-trip: for every prime p, generator alpha, private key x,
\* nonce k in [1, p-2] coprime to p-1 and message m, with s1 = alpha^k mod p
\* and s2 = k^-1 * (m - x*s1) mod (p-1), calculateK returns exactly k.
C2_NonceRoundTrip ==
    Called("calculateK") =>
        \A k \in 1..(args[3] - 2) :
            SignedWith(k) => pc = "done" /\ ret = Returned(k)

\* C3: in the branch c = gcd(s2, p-1) > 1 the result is a candidate
\* k = kt + i*((p-1)/c), i in 1..c, that satisfies alpha^k mod p = s1, or an
\* explicit failure: a candidate that fails the check is never returned.
C3_NonCoprimeBranchVerified ==
    Called("calculateK") /\ args[6] > 0 /\ MathGcd(args[6], args[3] - 1) > 1 =>
        (ret.returns => PowMod(args[1], ret.value, args[3]) = args[5])

\* C4: every nonce calculateK returns lies in [0, p-2], in both branches.
C4_NonceRange ==
    Called("calculateK") /\ ret.returns => ret.value \in 0..(args[3] - 2)

\* C9: verify(alpha, beta, p, m, s1, s2) returns true exactly when
\* alpha^m mod p = ((beta^s1 mod p) * (s1^s2 mod p)) mod p, for all non-negative
\* alpha, beta, m, s1, s2 and p >= 2, the product reduced mod p before the
\* comparison.
C9_VerifyEquation ==
    Called("verify") =>
        LET alpha == args[1]
            beta == args[2]
            p == args[3]
            m == args[4]
            s1 == args[5]
            s2 == args[6]
        IN  /\ pc = "done"
            /\ ret.value =
                  (PowMod(alpha, m, p)
                     = (PowMod(beta, s1, p) * PowMod(s1, s2, p)) % p)

\* C9's case: verify accepted a signature whose product of the two powers
\* reached p, so the reduction decided the comparison.
C9_Witness ==
    /\ Called("verify")
    /\ ret = Returned(TRUE)
    /\ PowMod(args[2], args[5], args[3]) * PowMod(args[5], args[6], args[3]) >= args[3]

\* The exponents x in [0, p-1) with alpha^x mod p = beta, for the call in args.
Logs == {x \in 0..(args[3] - 2) : PowMod(args[1], x, args[3]) = args[2]}

\* C1 as stated: discreteLogarithm(alpha, alpha^x mod p, p) returns exactly x
\* for every prime p, every alpha with 1 < alpha < p and every x in [0, p-1).
C1_RoundTripExact ==
    Called("discreteLogarithm") => \A x \in Logs : ret = Returned(x)

\* C1, amended: discreteLogarithm(alpha, alpha^x mod p, p) returns y with
\* 1 <= y <= p-1 and alpha^y mod p = alpha^x mod p; y = x whenever alpha
\* generates the whole group and x >= 1.
C1_RoundTrip ==
    Called("discreteLogarithm") /\ Logs # {} =>
        /\ pc = "done"
        /\ ret.value \in 1..(args[3] - 1)
        /\ PowMod(args[1], ret.value, args[3]) = args[2]
        /\ \A x \in Logs :
              IsGenerator(args[1], args[3]) /\ x >= 1 => ret.value = x

\* C1's case: the scenario alpha = 2, p = 11, beta = 2^7 mod 11 = 7 returned 7.
C1_Witness ==
    /\ Called("discreteLogarithm")
    /\ args = <<2, 7, 11>>
    /\ ret = Returned(7)

\* The giant steps k in [1, n] that hit residue r, for the call in args.
GiantSteps(r) == {k \in 1..n : PowMod(args[1], k * n, args[3]) = r}

\* The table is complete and no baby step has looked anything up.
TableBuilt == fn = "discreteLogarithm" /\ pc = "dl_scan" /\ i = 0

\* C10 as stated: once the table is built, every residue hit by a giant step
\* stores the highest i in [1, n] with alpha^(i*n) mod p = r.
C10_HighestIndexWins ==
    TableBuilt =>
        \A r \in 0..(args[3] - 1) :
            GiantSteps(r) # {} =>
                /\ r \in DOMAIN value
                /\ \A k \in GiantSteps(r) : k <= value[r]
                /\ value[r] \in GiantSteps(r)

\* C10, amended: once the table is built, every residue hit by a giant step
\* stores the lowest i in [1, n] with alpha^(i*n) mod p = r (the loop runs
\* from n down to 1, a lower index overwrites a higher one), and no other
\* residue has an entry.
C10_LowestIndexWins ==
    TableBuilt =>
        /\ DOMAIN value = {r \in 0..(args[3] - 1) : GiantSteps(r) # {}}
        /\ \A r \in DOMAIN value :
              /\ value[r] \in GiantSteps(r)
              /\ \A k \in GiantSteps(r) : value[r] <= k

\* C10's case: a built table in which two giant steps hit the same residue.
C10_Witness ==
    /\ TableBuilt
    /\ \E r \in DOMAIN value : \E k \in GiantSteps(r) : k # value[r]

====
